---------------------------- MODULE Spec2Model ----------------------------
(***************************************************************************)
(* A model of mlx5fw: the ITOC entry codec, the ITOC scanner, the firmware *)
(* buffer and the section operations (dumpcode, replacesection).           *)
(*                                                                         *)
(* A byte is a number in 0..255 and a byte buffer (Vec<u8>, &[u8]) is a    *)
(* sequence of bytes.  Rust offsets are 0-based: the byte at offset o of a *)
(* buffer b is b[o + 1].                                                   *)
(***************************************************************************)
EXTENDS Integers, Sequences, FiniteSets, TLC

(***************************************************************************)
(* Program constants.                                                      *)
(***************************************************************************)
\* 0x4020: the offset of the first ITOC slot
ItocBase == 16416
\* the stride of the scan and the length of an encoded ItocEntry
SlotLen == 32
\* 0x40: the content bytes of a cache line
LineLen == 64
\* 0x44: a cache line as stored, content followed by a 4-byte trailer
ChunkLen == 68
\* 0x1e: the bytes of an encoded entry that itoc_entry_crc covers
CrcPrefixLen == 30

(***************************************************************************)
(* Byte buffers.                                                           *)
(***************************************************************************)
\* &buf[off..][..n], defined when off + n <= Len(buf)
Slice(buf, off, n) == SubSeq(buf, off + 1, off + n)

\* [byte; n]
Repeat(byte, n) == [i \in 1..n |-> byte]

\* <[u8]>::chunks(n): the buffer cut into pieces of n bytes, the last one
\* holding what is left
RECURSIVE chunks(_, _)
chunks(buf, n) ==
    IF Len(buf) = 0 THEN <<>>
    ELSE IF Len(buf) <= n THEN <<buf>>
    ELSE <<SubSeq(buf, 1, n)>> \o chunks(SubSeq(buf, n + 1, Len(buf)), n)

\* u16::to_le_bytes
to_le_bytes(v) == <<v % 256, v \div 256>>

\* a big-endian unsigned number read from a byte sequence
RECURSIVE BeValue(_)
BeValue(bytes) ==
    IF Len(bytes) = 0 THEN 0
    ELSE BeValue(SubSeq(bytes, 1, Len(bytes) - 1)) * 256 + bytes[Len(bytes)]

\* the n-byte big-endian encoding of v
RECURSIVE BeBytes(_, _)
BeBytes(v, n) ==
    IF n = 0 THEN <<>> ELSE BeBytes(v \div 256, n - 1) \o <<v % 256>>

\* A usize or u32 that comes from a 32-bit field is kept as its two 16-bit
\* halves, for TLC's integers end at 2^31 - 1.
U32_read(bytes) ==
    [hi |-> BeValue(SubSeq(bytes, 1, 2)), lo |-> BeValue(SubSeq(bytes, 3, 4))]
U32_write(u) == BeBytes(u.hi, 2) \o BeBytes(u.lo, 2)
usize(n) == [hi |-> n \div 65536, lo |-> n % 65536]

\* the number a usize below 2^30 is; one of 2^30 or more is past the end of
\* every buffer of the model
Small(u) == u.hi < 16384
Value(u) == u.hi * 65536 + u.lo

(***************************************************************************)
(* The checksum engine (mod crc).  Both functions take a running 16-bit    *)
(* accumulator and a byte slice; a call seeded with the result of another  *)
(* continues it.  They are modelled as table-driven, most significant bit  *)
(* first CRC-16 registers over two different polynomials.                  *)
(***************************************************************************)
RECURSIVE XorBits(_, _, _)
XorBits(a, b, n) ==
    IF n = 0 THEN 0
    ELSE 2 * XorBits(a \div 2, b \div 2, n - 1) + ((a + b) % 2)

\* the exclusive or of two 4-bit numbers, tabulated
XorNib == [a \in 0..15 |-> [b \in 0..15 |-> XorBits(a, b, 4)]]

\* the exclusive or of two bytes
Xor8(a, b) == XorNib[a \div 16][b \div 16] * 16 + XorNib[a % 16][b % 16]

\* the exclusive or of two 16-bit numbers
Xor16(a, b) == Xor8(a \div 256, b \div 256) * 256 + Xor8(a % 256, b % 256)

\* k shifts of a 16-bit register, reducing by poly whenever a 1 leaves it
RECURSIVE CrcShift(_, _, _)
CrcShift(poly, reg, k) ==
    IF k = 0 THEN reg
    ELSE CrcShift(poly,
                  IF reg >= 32768 THEN Xor16((reg * 2) % 65536, poly)
                                  ELSE reg * 2,
                  k - 1)

CrcTable(poly) == [b \in 0..255 |-> CrcShift(poly, b * 256, 8)]

\* 0x100b
Crc16Table == CrcTable(4107)
\* 0x8005
HwCrcTable == CrcTable(32773)

CrcByte(table, crc, byte) ==
    LET t == table[Xor8(crc \div 256, byte)]
    IN  Xor8(crc % 256, t \div 256) * 256 + (t % 256)

\* the register after the bytes lo..hi of a buffer, taken in order (the
\* range is halved, and the left half is folded before the right one starts)
RECURSIVE CrcFold(_, _, _, _, _)
CrcFold(table, crc, bytes, lo, hi) ==
    IF lo > hi THEN crc
    ELSE IF lo = hi THEN CrcByte(table, crc, bytes[lo])
    ELSE LET mid == (lo + hi) \div 2
             left == CrcFold(table, crc, bytes, lo, mid)
         IN  IF left >= 0 THEN CrcFold(table, left, bytes, mid + 1, hi)
                          ELSE left

calc_crc16(seed, bytes) == CrcFold(Crc16Table, seed, bytes, 1, Len(bytes))

calc_hwcrc(seed, bytes) == CrcFold(HwCrcTable, seed, bytes, 1, Len(bytes))

(***************************************************************************)
(* The binary schema codec: ItocEntryType and ItocEntry.                   *)
(***************************************************************************)
\* the named variants of ItocEntryType with their ids
ItocEntryTypeIds ==
    << <<"PciCode", 2>>, <<"MainCode", 3>>, <<"PcieLinkCode", 4>>,
       <<"IronPrepCode", 5>>, <<"PostIronBootCode", 6>>, <<"UpgradeCode", 7>>,
       <<"HwBootCfg", 8>>, <<"HwMainCfg", 9>>, <<"PhyUcCode", 10>>,
       <<"PhyUcConsts", 11>>, <<"PciePhyUcCode", 12>>, <<"ImageInfo", 16>>,
       <<"FwBootCfg", 17>>, <<"FwMainCfg", 18>>, <<"RomCode", 24>>,
       <<"ResetInfo", 32>>, <<"DbgFwIni", 48>>, <<"DbgFwParams", 50>>,
       <<"ImageSignature256", 160>>, <<"PublicKeys2048", 161>>,
       <<"ForbiddenVersions", 162>>, <<"ImageSignature512", 163>>,
       <<"PublicKeys4096", 164>>, <<"CrDumpMaskData", 233>>,
       <<"ProgrammableHwFw", 235>> >>

\* ItocEntryType_read with one Unknown for every byte that is no variant's id
ItocEntryType_read_OneUnknown(id) ==
    IF \E k \in DOMAIN ItocEntryTypeIds : ItocEntryTypeIds[k][2] = id
    THEN [tag |-> ItocEntryTypeIds[
                      CHOOSE k \in DOMAIN ItocEntryTypeIds :
                          ItocEntryTypeIds[k][2] = id][1],
          val |-> 0]
    ELSE [tag |-> "Unknown", val |-> 0]

\* DekuRead of ItocEntryType: the variant of an id byte; a byte that is no
\* variant's id is kept in Unknown
ItocEntryType_read(id) ==
    IF \E k \in DOMAIN ItocEntryTypeIds : ItocEntryTypeIds[k][2] = id
    THEN [tag |-> ItocEntryTypeIds[
                      CHOOSE k \in DOMAIN ItocEntryTypeIds :
                          ItocEntryTypeIds[k][2] = id][1],
          val |-> 0]
    ELSE [tag |-> "Unknown", val |-> id]

\* DekuWrite of ItocEntryType: the id byte of a variant
ItocEntryType_write(t) ==
    IF t.tag = "Unknown" THEN t.val
    ELSE ItocEntryTypeIds[
             CHOOSE k \in DOMAIN ItocEntryTypeIds :
                 ItocEntryTypeIds[k][1] = t.tag][2]

\* ItocEntryType::is_code
is_code(t) ==
    t.tag \in {"PciCode", "MainCode", "PcieLinkCode", "IronPrepCode",
               "PostIronBootCode", "UpgradeCode"}

\* DekuRead of ItocEntry: the fields of a 32-byte big-endian record; the
\* padding (bytes 12..17, the low 7 bits of byte 24, bytes 28..29) is skipped
from_bytes(b) ==
    [entry_type        |-> ItocEntryType_read(b[1]),
     size              |-> BeValue(SubSeq(b, 2, 4)),
     zipped_image      |-> b[5] \div 128 = 1,
     cache_line_crc    |-> (b[5] \div 64) % 2 = 1,
     load_address      |-> (b[5] % 64) * 16777216 + BeValue(SubSeq(b, 6, 8)),
     entry_point       |-> U32_read(SubSeq(b, 9, 12)),
     version           |-> BeValue(SubSeq(b, 19, 20)),
     flash_addr        |-> U32_read(SubSeq(b, 21, 24)),
     encrypted_section |-> b[25] \div 128 = 1,
     crc               |-> b[26],
     section_crc       |-> BeValue(SubSeq(b, 27, 28)),
     itoc_entry_crc    |-> BeValue(SubSeq(b, 31, 32))]

Bit(flag) == IF flag THEN 1 ELSE 0

\* DekuWrite of ItocEntry: the 32 bytes of a record, padding written as zero
to_bytes(e) ==
    <<ItocEntryType_write(e.entry_type)>>
    \o BeBytes(e.size, 3)
    \o <<Bit(e.zipped_image) * 128 + Bit(e.cache_line_crc) * 64
           + e.load_address \div 16777216>>
    \o BeBytes(e.load_address % 16777216, 3)
    \o U32_write(e.entry_point)
    \o Repeat(0, 6)
    \o BeBytes(e.version, 2)
    \o U32_write(e.flash_addr)
    \o <<Bit(e.encrypted_section) * 128>>
    \o <<e.crc>>
    \o BeBytes(e.section_crc, 2)
    \o Repeat(0, 2)
    \o BeBytes(e.itoc_entry_crc, 2)

\* ItocEntry::calc_itoc_entry_crc
calc_itoc_entry_crc(e) == calc_crc16(0, SubSeq(to_bytes(e), 1, CrcPrefixLen))

\* update that leaves itoc_entry_crc as it was decoded
update_KeepsStored(e) == e

\* DekuUpdate of ItocEntry: itoc_entry_crc is the only field with an update
update(e) == [e EXCEPT !.itoc_entry_crc = calc_itoc_entry_crc(e)]

(***************************************************************************)
(* The firmware buffer and the ITOC scanner.                               *)
(***************************************************************************)
\* the end-of-table sentinel, [0xffu8; 32]
Sentinel == Repeat(255, SlotLen)

\* FirmwareStructure::read at a slot: the offset with the decoded record
FirmwareStructure_read(firmware, offset) ==
    [offset |-> offset, entry |-> from_bytes(Slice(firmware, offset, SlotLen))]

\* read_itoc_from that decodes the sentinel slot before it stops
RECURSIVE read_itoc_from_DecodesSentinel(_, _, _)
read_itoc_from_DecodesSentinel(firmware, offset, itoc) ==
    IF offset + SlotLen > Len(firmware) THEN [ok |-> FALSE, itoc |-> itoc]
    ELSE IF Slice(firmware, offset, SlotLen) = Sentinel
         THEN [ok |-> TRUE,
               itoc |-> Append(itoc, FirmwareStructure_read(firmware, offset))]
    ELSE read_itoc_from_DecodesSentinel(
             firmware, offset + SlotLen,
             Append(itoc, FirmwareStructure_read(firmware, offset)))

\* the loop of Firmware::read_itoc from a slot offset on, with the entries
\* pushed so far: it panics when the slot it compares runs past the buffer
RECURSIVE read_itoc_from(_, _, _)
read_itoc_from(firmware, offset, itoc) ==
    IF offset + SlotLen > Len(firmware) THEN [ok |-> FALSE, itoc |-> itoc]
    ELSE IF Slice(firmware, offset, SlotLen) = Sentinel
         THEN [ok |-> TRUE, itoc |-> itoc]
    ELSE read_itoc_from(firmware, offset + SlotLen,
                        Append(itoc, FirmwareStructure_read(firmware, offset)))

\* Firmware::read_itoc
read_itoc(firmware) == read_itoc_from(firmware, ItocBase, <<>>)

\* FirmwareStructure::write_bytes: the bounds check, then the copy
write_bytes(offset, firmware, value) ==
    IF ~(Small(offset) /\ Value(offset) + Len(value) < Len(firmware))
    THEN [ok |-> FALSE, firmware |-> firmware]
    ELSE [ok |-> TRUE,
          firmware |-> SubSeq(firmware, 1, Value(offset)) \o value
                       \o SubSeq(firmware, Value(offset) + Len(value) + 1,
                                 Len(firmware))]

\* whether &firmware[offset..][..size] is in bounds (it panics otherwise)
InBounds(firmware, offset, size) ==
    Small(offset) /\ Value(offset) + size <= Len(firmware)

(***************************************************************************)
(* Section operations.                                                     *)
(***************************************************************************)
\* cache_line without the two zero bytes: a stored line of 0x42 bytes
cache_line_NoZeroBytes(line) == line \o to_le_bytes(calc_hwcrc(0, line))

\* the body of the loop over section.chunks(0x40) in replace_section: the
\* line, two zero bytes, then the hardware checksum of those bytes
cache_line(line) ==
    LET padded == line \o <<0, 0>>
    IN  padded \o to_le_bytes(calc_hwcrc(0, padded))

RECURSIVE cache_lines(_)
cache_lines(lines) ==
    IF Len(lines) = 0 THEN <<>>
    ELSE cache_line(Head(lines)) \o cache_lines(Tail(lines))

\* the content replace_section writes for the bytes it read from the file
fix_cache_line_crc(section) == cache_lines(chunks(section, LineLen))

\* the result of a replace_section that stopped at an error or a panic:
\* nothing was written to the output path
Stopped(status, firmware) ==
    [status |-> status, firmware |-> firmware, writes |-> <<>>]

\* FirmwareStructure<usize>::read_bytes, defined when the window is in bounds
read_bytes(offset, size, firmware) == Slice(firmware, Value(offset), size)

\* the checksum of the section bytes, the update and the write-back of the
\* entry, then the write of the output file
replace_section_entry(firmware, located, section) ==
    LET itoc_entry == located.entry
        crc1 == calc_crc16(0, section)
        crc2 == calc_crc16(crc1, <<0, 0>>)
        updated == update([itoc_entry EXCEPT !.section_crc = crc2])
        written == write_bytes(usize(located.offset), firmware,
                               to_bytes(updated))
    IN  IF ~written.ok THEN Stopped("bounds", firmware)
        ELSE [status |-> "ok", firmware |-> written.firmware,
              writes |-> <<written.firmware>>]

\* replace_section_content that fills the window after the content with
\* zero bytes before it writes it
replace_section_content_ZeroesStale(firmware, located, section_content) ==
    LET itoc_entry == located.entry
        filled == section_content
                  \o Repeat(0, itoc_entry.size - Len(section_content))
        written == write_bytes(itoc_entry.flash_addr, firmware, filled)
    IN  IF ~(Len(section_content) <= itoc_entry.size)
        THEN Stopped("size", firmware)
        ELSE IF ~written.ok THEN Stopped("bounds", firmware)
        ELSE IF ~InBounds(written.firmware, itoc_entry.flash_addr,
                          itoc_entry.size)
             THEN Stopped("panic", written.firmware)
        ELSE replace_section_entry(
                 written.firmware, located,
                 read_bytes(itoc_entry.flash_addr, itoc_entry.size,
                            written.firmware))

\* replace_section_content with the checksum taken of the written content
\* and not of the section window
replace_section_content_CrcOfContent(firmware, located, section_content) ==
    LET itoc_entry == located.entry
        written == write_bytes(itoc_entry.flash_addr, firmware,
                               section_content)
    IN  IF ~(Len(section_content) <= itoc_entry.size)
        THEN Stopped("size", firmware)
        ELSE IF ~written.ok THEN Stopped("bounds", firmware)
        ELSE IF ~InBounds(written.firmware, itoc_entry.flash_addr,
                          itoc_entry.size)
             THEN Stopped("panic", written.firmware)
        ELSE replace_section_entry(written.firmware, located, section_content)

\* replace_section_content with the output written before the size check
replace_section_content_WritesFirst(firmware, located, section_content) ==
    LET itoc_entry == located.entry
        written == write_bytes(itoc_entry.flash_addr, firmware,
                               section_content)
    IN  IF ~(Len(section_content) <= itoc_entry.size)
        THEN [status |-> "size", firmware |-> firmware,
              writes |-> <<firmware>>]
        ELSE IF ~written.ok THEN Stopped("bounds", firmware)
        ELSE IF ~InBounds(written.firmware, itoc_entry.flash_addr,
                          itoc_entry.size)
             THEN Stopped("panic", written.firmware)
        ELSE replace_section_entry(
                 written.firmware, located,
                 read_bytes(itoc_entry.flash_addr, itoc_entry.size,
                            written.firmware))

\* the size check, the write of the section content and the read of the
\* section window that the checksum covers
replace_section_content(firmware, located, section_content) ==
    LET itoc_entry == located.entry
        written == write_bytes(itoc_entry.flash_addr, firmware,
                               section_content)
    IN  IF ~(Len(section_content) <= itoc_entry.size)
        THEN Stopped("size", firmware)
        ELSE IF ~written.ok THEN Stopped("bounds", firmware)
        ELSE IF ~InBounds(written.firmware, itoc_entry.flash_addr,
                          itoc_entry.size)
             THEN Stopped("panic", written.firmware)
        ELSE replace_section_entry(
                 written.firmware, located,
                 read_bytes(itoc_entry.flash_addr, itoc_entry.size,
                            written.firmware))

\* replace_section: status is "ok" or the step that stopped it, firmware is
\* the buffer as the run left it and writes are the buffers written to
\* args.output, in order
replace_section(firmware, args) ==
    LET scan == read_itoc(firmware)
    IN  IF ~scan.ok THEN Stopped("panic", firmware)
        ELSE IF ~(args.section_index < Len(scan.itoc))
             THEN Stopped("index", firmware)
        ELSE IF ~args.section_content.exists THEN Stopped("read", firmware)
        ELSE LET located == scan.itoc[args.section_index + 1]
                 section == args.section_content.bytes
             IN  replace_section_content(
                     firmware, located,
                     IF located.entry.cache_line_crc
                        /\ ~args.no_fix_cache_line_crc
                     THEN fix_cache_line_crc(section)
                     ELSE section)

\* strip_chunks that keeps what a final partial chunk holds
RECURSIVE strip_chunks_KeepsPartial(_)
strip_chunks_KeepsPartial(cs) ==
    IF Len(cs) = 0 THEN <<>>
    ELSE SubSeq(Head(cs), 1,
                IF Len(Head(cs)) < LineLen THEN Len(Head(cs)) ELSE LineLen)
         \o strip_chunks_KeepsPartial(Tail(cs))

\* the code dump_code writes for a cache-line protected payload
RECURSIVE strip_chunks(_)
strip_chunks(cs) ==
    IF Len(cs) = 0 THEN <<>>
    ELSE (IF Len(Head(cs)) = ChunkLen THEN SubSeq(Head(cs), 1, LineLen)
                                      ELSE <<>>)
         \o strip_chunks(Tail(cs))

\* the file dump_code writes for one code entry; its name is built from the
\* load address and the type
dump_code_file(firmware, itoc_entry) ==
    LET content == Slice(firmware, Value(itoc_entry.flash_addr),
                         itoc_entry.size)
    IN  [name |-> <<itoc_entry.load_address, itoc_entry.entry_type>>,
         data |-> IF itoc_entry.cache_line_crc
                  THEN strip_chunks(chunks(content, ChunkLen))
                  ELSE content]

\* the loop of dump_code over the scanned entries from index i on, with
\* the files written so far; it panics on a payload out of the buffer
RECURSIVE dump_code_from(_, _, _, _)
dump_code_from(firmware, itoc, i, files) ==
    IF i > Len(itoc) THEN [status |-> "ok", files |-> files]
    ELSE IF ~is_code(itoc[i].entry.entry_type)
         THEN dump_code_from(firmware, itoc, i + 1, files)
    ELSE IF ~InBounds(firmware, itoc[i].entry.flash_addr, itoc[i].entry.size)
         THEN [status |-> "panic", files |-> files]
    ELSE dump_code_from(firmware, itoc, i + 1,
                        Append(files, dump_code_file(firmware, itoc[i].entry)))

\* dump_code: the files written into the fresh directory, in order
dump_code(firmware) ==
    LET scan == read_itoc(firmware)
    IN  IF ~scan.ok THEN [status |-> "panic", files |-> <<>>]
        ELSE dump_code_from(firmware, scan.itoc, 1, <<>>)

(***************************************************************************)
(* Bounds and inputs of the model.                                         *)
(***************************************************************************)
\* the most entries an input image's table holds
MaxEntries == 2
\* the bytes of an input image from the first ITOC slot on
TailLen == 480

ImageLen == ItocBase + TailLen

\* the bytes of an image outside its table; they are below 128, and so are
\* the bytes of the replacement contents, so that a 32-bit field decoded
\* from any four of them is below 2^31
Fill(offset) == (offset * 7 + 3) % 128

\* the entries the input images are built from: code and other types, an
\* unknown type code, both values of cache_line_crc, sizes of one chunk,
\* one chunk and a partial one, and two chunks, payloads below the table,
\* above it, over it and ending with the image, padding bits that are
\* zero (junk = 0) or not, and the two other flags
Templates ==
    << [id |-> 3,   size |-> 136, cache_line_crc |-> TRUE,
        flash_addr |-> ItocBase + 224, junk |-> 0,
        zipped_image |-> FALSE, encrypted_section |-> FALSE],
       [id |-> 2,   size |-> 80,  cache_line_crc |-> TRUE,
        flash_addr |-> ImageLen - 80, junk |-> 165,
        zipped_image |-> TRUE, encrypted_section |-> FALSE],
       [id |-> 119, size |-> 68,  cache_line_crc |-> TRUE,
        flash_addr |-> 4096, junk |-> 0,
        zipped_image |-> FALSE, encrypted_section |-> TRUE],
       [id |-> 4,   size |-> 136, cache_line_crc |-> TRUE,
        flash_addr |-> ItocBase - 68, junk |-> 90,
        zipped_image |-> FALSE, encrypted_section |-> TRUE],
       [id |-> 7,   size |-> 68,  cache_line_crc |-> FALSE,
        flash_addr |-> ImageLen - 68, junk |-> 0,
        zipped_image |-> FALSE, encrypted_section |-> FALSE],
       [id |-> 16,  size |-> 80,  cache_line_crc |-> FALSE,
        flash_addr |-> 8192, junk |-> 0,
        zipped_image |-> TRUE, encrypted_section |-> FALSE] >>

\* the 32 bytes of the slot of the k-th template as an image holds them
RawSlot(k) ==
    LET t == Templates[k]
    IN  <<t.id>> \o BeBytes(t.size, 3)
        \o <<Bit(t.zipped_image) * 128 + Bit(t.cache_line_crc) * 64>>
        \o <<16 * k, 0, 0>>
        \o BeBytes(4096 * k + 1, 4)
        \o Repeat(t.junk, 6)
        \o <<0, k>>
        \o BeBytes(t.flash_addr, 4)
        \o <<Bit(t.encrypted_section) * 128 + (t.junk % 128)>> \o <<k>>
        \o <<18, 52>>
        \o Repeat(t.junk, 2)
        \o <<171, 205>>

\* the template in the j-th slot (from 0) of the image that starts with
\* template k
TemplateAt(k, j) == ((k + j - 1) % Len(Templates)) + 1

\* an image of ImageLen bytes whose table holds n slots, the templates k,
\* k + 1, ... in order, followed by the sentinel when there is one
Image(k, n, sentinel) ==
    [i \in 1..ImageLen |->
        LET offset == i - 1
            j == (offset - ItocBase) \div SlotLen
        IN  IF offset >= ItocBase /\ j < n
            THEN RawSlot(TemplateAt(k, j))[offset - ItocBase - j * SlotLen + 1]
            ELSE IF offset >= ItocBase /\ j = n /\ sentinel THEN 255
            ELSE Fill(offset)]

\* the input images: every table of 1..MaxEntries slots with its sentinel,
\* the empty table (the sentinel in the first slot), and the one-slot
\* tables with no sentinel after them
Images ==
    {Image(k, n, TRUE) : k \in DOMAIN Templates, n \in 1..MaxEntries}
    \cup {Image(1, 0, TRUE)}
    \cup {Image(k, 1, FALSE) : k \in DOMAIN Templates}

\* a file: absent, or present with its bytes
NoFile == [exists |-> FALSE, bytes |-> <<>>]
File(bytes) == [exists |-> TRUE, bytes |-> bytes]

\* the replacement content files
ContentLens == {64, 68, 80, 128, 136, 137}
Content(n) == [i \in 1..n |-> (i * 11 + 5) % 128]
ContentFiles == {NoFile} \cup {File(Content(n)) : n \in ContentLens}

\* the command lines of replacesection
ArgsSet ==
    [section_index : 0..MaxEntries, section_content : ContentFiles,
     no_fix_cache_line_crc : BOOLEAN, no_update_itoc : BOOLEAN]

(***************************************************************************)
(* The state: the input image and the output file on disk, the last        *)
(* replacesection run (its command line, how it ended and the buffer it    *)
(* held when it ended) and the last inspecting run (showsections, dumpcode *)
(* or a decode and re-encode of one slot).  A behaviour is at most one     *)
(* replacesection run followed by at most one inspecting run: an           *)
(* inspecting run writes neither file, so longer behaviours reach no other *)
(* images.  The input image is inspected before replacesection runs and    *)
(* the output file after it: replacesection leaves the input file as it    *)
(* is, so an inspecting run of it reads the same bytes afterwards.         *)
(***************************************************************************)
VARIABLES input, output, replaced, last

vars == <<input, output, replaced, last>>

NoArgs ==
    [section_index |-> 0, section_content |-> NoFile,
     no_fix_cache_line_crc |-> FALSE, no_update_itoc |-> FALSE]

NotReplaced == [status |-> "none", args |-> NoArgs, firmware |-> <<>>]

NoRun ==
    [op |-> "none", path |-> "none", status |-> "none", itoc |-> <<>>,
     files |-> <<>>, slot |-> <<>>, bytes |-> <<>>]

\* Firmware::read of a path: the input image or the output file
Paths == {"input", "output"}
FileAt(path) == IF path = "input" THEN File(input) ELSE output

Init ==
    /\ input \in Images
    /\ output = NoFile
    /\ replaced = NotReplaced
    /\ last = NoRun

\* main with replacesection on the input image, writing the output path
ReplaceSection ==
    /\ replaced = NotReplaced
    /\ last = NoRun
    /\ \E args \in ArgsSet :
          \E run \in {replace_section(input, args)} :
              /\ replaced' = [status |-> run.status, args |-> args,
                              firmware |-> run.firmware]
              /\ output' = IF Len(run.writes) = 0 THEN output
                           ELSE File(run.writes[Len(run.writes)])
    /\ last' = NoRun
    /\ UNCHANGED input

\* main with showsections: the scanned entries it prints
ShowSections ==
    /\ last = NoRun
    /\ \E path \in Paths :
          /\ FileAt(path).exists
          /\ path = "input" => replaced = NotReplaced
          /\ LET scan == read_itoc(FileAt(path).bytes)
             IN  last' = [NoRun EXCEPT
                              !.op = "showsections", !.path = path,
                              !.status = IF scan.ok THEN "ok" ELSE "panic",
                              !.itoc = IF scan.ok THEN scan.itoc ELSE <<>>]
    /\ UNCHANGED <<input, output, replaced>>

\* main with dumpcode into a fresh directory: the files it writes
DumpCode ==
    /\ last = NoRun
    /\ \E path \in Paths :
          /\ FileAt(path).exists
          /\ path = "input" => replaced = NotReplaced
          /\ LET run == dump_code(FileAt(path).bytes)
             IN  last' = [NoRun EXCEPT
                              !.op = "dumpcode", !.path = path,
                              !.status = run.status, !.files = run.files]
    /\ UNCHANGED <<input, output, replaced>>

\* the codec on one slot of the table region: the slot is decoded, updated
\* and encoded
Recode ==
    /\ last = NoRun
    /\ \E path \in Paths, j \in 0..MaxEntries :
          /\ FileAt(path).exists
          /\ path = "input" => replaced = NotReplaced
          /\ ItocBase + (j + 1) * SlotLen <= Len(FileAt(path).bytes)
          /\ LET slot == Slice(FileAt(path).bytes, ItocBase + j * SlotLen,
                               SlotLen)
             IN  /\ slot # Sentinel
                 /\ last' = [NoRun EXCEPT
                                 !.op = "recode", !.path = path,
                                 !.status = "ok", !.slot = slot,
                                 !.bytes = to_bytes(update(from_bytes(slot)))]
    /\ UNCHANGED <<input, output, replaced>>

Next == ReplaceSection \/ ShowSections \/ DumpCode \/ Recode

Spec == Init /\ [][Next]_vars

(***************************************************************************)
(* What the properties below speak of, stated on the bytes of the images   *)
(* and not through the scanner.                                            *)
(***************************************************************************)
\* the slot j (from 0) of an image's table region
SlotOffset(j) == ItocBase + j * SlotLen
SlotAt(image, j) == Slice(image, SlotOffset(j), SlotLen)

\* the number of slots before the first sentinel slot of an image, -1 when
\* the table region holds no sentinel slot
SentinelSlots(image) ==
    {j \in 0..((Len(image) - ItocBase) \div SlotLen) :
        /\ SlotOffset(j) + SlotLen <= Len(image)
        /\ \A i \in 1..SlotLen : image[SlotOffset(j) + i] = 255}
TableLen(image) ==
    IF SentinelSlots(image) = {} THEN -1
    ELSE CHOOSE n \in SentinelSlots(image) :
             \A m \in SentinelSlots(image) : n <= m

\* the last replacesection run: its command line, and whether it named an
\* entry of the input image's table and a content file that exists
Args == replaced.args
Targeted ==
    /\ replaced.status # "none"
    /\ Args.section_index < TableLen(input)
    /\ Args.section_content.exists
Succeeded == replaced.status = "ok"

\* the entry the run named, as the input image holds it, and its fields
TargetOffset == SlotOffset(Args.section_index)
Target == from_bytes(SlotAt(input, Args.section_index))
TargetSize == BeValue(Slice(input, TargetOffset + 1, 3))
TargetFlashAddr == Value(U32_read(Slice(input, TargetOffset + 20, 4)))
TargetCacheLineCrc == (input[TargetOffset + 5] \div 64) % 2 = 1

\* the replacement content as read from the file, whether the run repairs
\* its cache lines, and the length of what it then writes
NewContent == Args.section_content.bytes
Repairs == TargetCacheLineCrc /\ ~Args.no_fix_cache_line_crc
WrittenLen ==
    IF Repairs
    THEN Len(NewContent)
         + (ChunkLen - LineLen) * ((Len(NewContent) + LineLen - 1) \div LineLen)
    ELSE Len(NewContent)

\* the section window lies inside the input image
WindowInside ==
    /\ Small(Target.flash_addr)
    /\ TargetFlashAddr + TargetSize <= Len(input)

(***************************************************************************)
(* C1: a replacesection run that stops at the scan, the index check, the   *)
(* read of the content, the size check, the write of the section or the    *)
(* write-back of the entry never writes the output path; a run that        *)
(* succeeds writes it once, with the whole patched buffer.                 *)
(***************************************************************************)
C1_OutputOnlyOnSuccess ==
    /\ replaced.status \notin {"none", "ok"} => ~output.exists
    /\ Succeeded => output = File(replaced.firmware)

\* a run stopped by the bounds check of the section write, after the scan,
\* the index check, the read and the size check passed
C1_Witness ==
    /\ replaced.status = "bounds"
    /\ Targeted
    /\ WrittenLen <= TargetSize
    /\ ~output.exists

(***************************************************************************)
(* C2: for an entry whose window flash_addr..flash_addr+size lies inside   *)
(* the image, replacesection succeeds exactly when the content it writes   *)
(* is at most size bytes long (so content of exactly size bytes succeeds), *)
(* and content that is longer leaves the firmware buffer unchanged.        *)
(***************************************************************************)
C2_AcceptedIffFits ==
    Targeted /\ WindowInside =>
        /\ Succeeded <=> WrittenLen <= TargetSize
        /\ WrittenLen > TargetSize => replaced.firmware = input

(***************************************************************************)
(* The cache lines of the replacement content, line by line.               *)
(***************************************************************************)
\* the k-th (from 0) 0x40-byte line of the replacement content, the last
\* one holding what is left
NewLines == (Len(NewContent) + LineLen - 1) \div LineLen
NewLine(k) ==
    SubSeq(NewContent, k * LineLen + 1,
           IF (k + 1) * LineLen < Len(NewContent) THEN (k + 1) * LineLen
                                                  ELSE Len(NewContent))

\* a line as stored: the line, 2 zero bytes and the checksum of both, high
\* byte first or low byte first
StoredLine(k, highFirst) ==
    LET covered == NewLine(k) \o <<0, 0>>
        hwcrc == calc_hwcrc(0, covered)
    IN  covered \o (IF highFirst THEN <<hwcrc \div 256, hwcrc % 256>>
                                 ELSE <<hwcrc % 256, hwcrc \div 256>>)

\* the bytes of the patched image at the section window hold the stored
\* lines in order (the bytes of the entry's own slot, written back later,
\* set aside)
LinesStored(highFirst) ==
    \A lines \in {[k \in 0..(NewLines - 1) |-> StoredLine(k, highFirst)]} :
        \A p \in 0..(WrittenLen - 1) :
            \/ /\ TargetFlashAddr + p >= TargetOffset
               /\ TargetFlashAddr + p < TargetOffset + SlotLen
            \/ output.bytes[TargetFlashAddr + p + 1]
                   = lines[p \div ChunkLen][(p % ChunkLen) + 1]

(***************************************************************************)
(* C3: when the target entry has cache_line_crc set and the repair is not  *)
(* suppressed, every 0x40-byte line of the content (the final short one    *)
(* too) is written as the line, 2 zero bytes and hwcrc(0, line and zero    *)
(* bytes) as 2 big-endian bytes, high byte first, the lines in order.      *)
(***************************************************************************)
C3_LinesBigEndian == Succeeded /\ Repairs => LinesStored(TRUE)

(***************************************************************************)
(* The checksums of the entry that a successful run writes back.           *)
(***************************************************************************)
OldSlot == SlotAt(input, Args.section_index)
NewSlot == SlotAt(output.bytes, Args.section_index)
SectionCrcOf(slot) == BeValue(SubSeq(slot, 27, 28))
EntryCrcOf(slot) == BeValue(SubSeq(slot, 31, 32))

\* the content as written, and the section window once it is written: the
\* content, then the bytes the input image had after it up to size
WrittenContent ==
    IF Repairs THEN fix_cache_line_crc(NewContent) ELSE NewContent
WrittenWindow ==
    WrittenContent
    \o SubSeq(input, TargetFlashAddr + WrittenLen + 1,
              TargetFlashAddr + TargetSize)

SectionCrcRecomputed ==
    SectionCrcOf(NewSlot)
        = calc_crc16(calc_crc16(0, WrittenWindow), <<0, 0>>)
EntryCrcRecomputed ==
    EntryCrcOf(NewSlot) = calc_crc16(0, SubSeq(NewSlot, 1, CrcPrefixLen))

(***************************************************************************)
(* C4: replacesection honours no_update_itoc: with the switch set the      *)
(* entry written back keeps the section_crc and the itoc_entry_crc it had  *)
(* before the run, with the switch clear both are recomputed.              *)
(***************************************************************************)
C4_NoUpdateItocHonoured ==
    Succeeded =>
        IF Args.no_update_itoc
        THEN /\ SectionCrcOf(NewSlot) = SectionCrcOf(OldSlot)
             /\ EntryCrcOf(NewSlot) = EntryCrcOf(OldSlot)
        ELSE SectionCrcRecomputed /\ EntryCrcRecomputed

(***************************************************************************)
(* The code entries of an image and the file code extraction writes for    *)
(* each, stated on the bytes of the image.                                 *)
(***************************************************************************)
\* the slots of an image's table whose type byte is one of the six code types
CodeSlots(image) ==
    {j \in 0..(TableLen(image) - 1) : image[SlotOffset(j) + 1] \in 2..7}

\* the place of the file of code slot j among the files written, from 1
FileRank(image, j) == Cardinality({i \in CodeSlots(image) : i <= j})

\* the bytes extraction keeps of the payload of slot j: of a cache-line
\* protected payload the first 0x40 bytes of each complete 0x44-byte chunk,
\* of any other the whole payload
ExpectedCode(image, j) ==
    LET size == BeValue(Slice(image, SlotOffset(j) + 1, 3))
        addr == BeValue(Slice(image, SlotOffset(j) + 20, 4))
        lines == (image[SlotOffset(j) + 5] \div 64) % 2 = 1
    IN  IF lines
        THEN [p \in 1..((size \div ChunkLen) * LineLen) |->
                 image[addr + ((p - 1) \div LineLen) * ChunkLen
                       + ((p - 1) % LineLen) + 1]]
        ELSE Slice(image, addr, size)

\* an extraction of the patched image after a successful run that repaired
\* whole-line content for a code entry
TargetIsCode == input[TargetOffset + 1] \in 2..7
WholeLines == Len(NewContent) % LineLen = 0
ExtractedPatched ==
    /\ last.op = "dumpcode"
    /\ last.path = "output"
    /\ Succeeded
    /\ TargetIsCode
    /\ Repairs
    /\ WholeLines

\* the file extraction wrote for the target entry is the replacement content
TargetRank ==
    Cardinality({j \in 0..Args.section_index :
                    output.bytes[SlotOffset(j) + 1] \in 2..7})
ExtractedIsContent ==
    /\ Len(last.files) >= TargetRank
    /\ last.files[TargetRank].data = NewContent

\* the section window and the table of the input image share no byte
WindowOffTable ==
    \/ TargetFlashAddr + TargetSize <= ItocBase
    \/ TargetFlashAddr >= SlotOffset(TableLen(input)) + SlotLen

(***************************************************************************)
(* C5 as stated: for a code entry with cache_line_crc set and content of a *)
(* whole number of 0x40-byte lines that fits once repaired, replacesection *)
(* and then code extraction of the patched image yield the content.        *)
(***************************************************************************)
C5_ExtractInvertsRepair == ExtractedPatched => ExtractedIsContent

(***************************************************************************)
(* C5: the same, for content that once repaired leaves less than one       *)
(* 0x44-byte chunk of the window unwritten, and a window that shares no    *)
(* byte with the table.                                                    *)
(***************************************************************************)
C5_ExtractInvertsRepairOfFullWindow ==
    ExtractedPatched /\ TargetSize - WrittenLen < ChunkLen /\ WindowOffTable
        => last.status = "ok" /\ ExtractedIsContent

\* two lines put into a window of two chunks and extracted again
C5_Witness ==
    /\ ExtractedPatched
    /\ TargetSize - WrittenLen < ChunkLen
    /\ WindowOffTable
    /\ Len(NewContent) = 2 * LineLen
    /\ last.status = "ok"

(***************************************************************************)
(* C6: of an image whose table region holds N slots that are not all 0xFF  *)
(* and then a slot of 32 bytes 0xFF, read_itoc returns N entries, the i-th *)
(* being the decode of the slot at 0x4020 + 32 * i with that offset;       *)
(* neither the sentinel slot nor anything after it is decoded.             *)
(***************************************************************************)
C6_ScanReturnsSlotsBeforeSentinel ==
    last.op = "showsections" /\ TableLen(FileAt(last.path).bytes) >= 0 =>
        /\ last.status = "ok"
        /\ Len(last.itoc) = TableLen(FileAt(last.path).bytes)
        /\ \A i \in 1..Len(last.itoc) :
              last.itoc[i] =
                  [offset |-> SlotOffset(i - 1),
                   entry |-> from_bytes(SlotAt(FileAt(last.path).bytes,
                                               i - 1))]

\* a scan of a table of two entries, with bytes that are no sentinel after
\* its sentinel slot
C6_Witness ==
    /\ last.op = "showsections"
    /\ last.status = "ok"
    /\ Len(last.itoc) = 2
    /\ TableLen(FileAt(last.path).bytes) = 2
    /\ SlotAt(FileAt(last.path).bytes, 3) # Sentinel

(***************************************************************************)
(* C7: after a successful replacesection the section_crc of the entry is   *)
(* crc16(crc16(0, W), <<0, 0>>) with W the whole window of size bytes at   *)
(* flash_addr once the content is written: the content and then the bytes  *)
(* the image held after it, not the content alone.                         *)
(***************************************************************************)
C7_SectionCrcCoversWindow == Succeeded => SectionCrcRecomputed

\* content shorter than the window, where the checksum of the content alone
\* is another number
C7_Witness ==
    /\ Succeeded
    /\ WrittenLen < TargetSize
    /\ SectionCrcOf(NewSlot)
           # calc_crc16(calc_crc16(0, WrittenContent), <<0, 0>>)

(***************************************************************************)
(* C8: after a successful replacesection the slot written back at the      *)
(* offset of the entry holds, as itoc_entry_crc, crc16(0, its own first 30 *)
(* bytes), and those bytes hold the new section_crc.                       *)
(***************************************************************************)
C8_EntryCrcAtRest ==
    Succeeded => EntryCrcRecomputed /\ SectionCrcRecomputed
                 /\ SubSeq(NewSlot, 27, 28) = BeBytes(SectionCrcOf(NewSlot), 2)

\* a run that changed both checksums of the entry
C8_Witness ==
    /\ Succeeded
    /\ SectionCrcOf(NewSlot) # SectionCrcOf(OldSlot)
    /\ EntryCrcOf(NewSlot) # EntryCrcOf(OldSlot)

(***************************************************************************)
(* C9: code extraction writes one file per code entry, in table order: for *)
(* cache_line_crc set, the first 0x40 bytes of each complete 0x44-byte     *)
(* chunk of the payload, floor(size / 0x44) * 0x40 bytes in all; for       *)
(* cache_line_crc clear, the size payload bytes; nothing for other types.  *)
(***************************************************************************)
C9_ExtractStripsTrailers ==
    last.op = "dumpcode" /\ last.status = "ok" =>
        /\ Len(last.files) = Cardinality(CodeSlots(FileAt(last.path).bytes))
        /\ \A j \in CodeSlots(FileAt(last.path).bytes) :
              last.files[FileRank(FileAt(last.path).bytes, j)].data
                  = ExpectedCode(FileAt(last.path).bytes, j)

\* an extraction of a protected payload of 0x50 bytes, one chunk and a
\* partial one, next to an entry that is no code
C9_Witness ==
    /\ last.op = "dumpcode"
    /\ last.status = "ok"
    /\ last.path = "input"
    /\ TableLen(input) = 2
    /\ SlotAt(input, 0) = RawSlot(2)
    /\ Len(last.files) = 1
    /\ Len(last.files[1].data) = LineLen

(***************************************************************************)
(* The padding of an encoded entry: bytes 12..17, the low 7 bits of byte   *)
(* 24 and bytes 28..29 (offsets from 0).                                   *)
(***************************************************************************)
PaddingCleared(slot) ==
    [i \in 1..SlotLen |->
        IF i \in 13..18 \/ i \in 29..30 THEN 0
        ELSE IF i = 25 THEN (slot[25] \div 128) * 128
        ELSE slot[i]]

\* 30 bytes followed by their crc16 as itoc_entry_crc
WithEntryCrc(prefix) == prefix \o BeBytes(calc_crc16(0, prefix), 2)

(***************************************************************************)
(* C10 as stated: decoding a slot that is not the sentinel and encoding    *)
(* the result gives the 32 bytes of the slot, itoc_entry_crc recomputed    *)
(* over the 30 bytes before it.                                            *)
(***************************************************************************)
C10_RecodeKeepsBytes ==
    last.op = "recode" =>
        last.bytes = WithEntryCrc(SubSeq(last.slot, 1, CrcPrefixLen))

(***************************************************************************)
(* C10: decoding a slot that is not the sentinel and encoding the result   *)
(* gives the 32 bytes of the slot with its padding bits cleared and        *)
(* itoc_entry_crc recomputed over the 30 bytes before it as encoded; the   *)
(* type byte, an unknown one too, is the one of the slot.                  *)
(***************************************************************************)
C10_RecodeKeepsFields ==
    last.op = "recode" =>
        /\ last.bytes
               = WithEntryCrc(SubSeq(PaddingCleared(last.slot), 1,
                                     CrcPrefixLen))
        /\ last.bytes[1] = last.slot[1]

\* a slot of an unknown type whose stored itoc_entry_crc was stale
C10_Witness ==
    /\ last.op = "recode"
    /\ last.slot[1] = 119
    /\ last.bytes[1] = 119
    /\ SubSeq(last.bytes, 31, 32) # SubSeq(last.slot, 31, 32)

(***************************************************************************)
(* The bytes a successful run may change: the written prefix, from         *)
(* flash_addr to flash_addr + the length of the written content, and the   *)
(* 32-byte slot of the target entry.  Offsets are from 0, ranges are       *)
(* half-open.                                                              *)
(***************************************************************************)
PrefixStart == TargetFlashAddr
PrefixEnd == TargetFlashAddr + WrittenLen
TargetSlotEnd == TargetOffset + SlotLen

\* the bytes of the range from..to are in the output what they were in the
\* input (an empty range when to <= from)
Kept(from, to) ==
    SubSeq(output.bytes, from + 1, to) = SubSeq(input, from + 1, to)

\* every byte before both ranges, between them and after both is kept
KeptOutsidePrefixAndSlot ==
    LET prefixFirst == PrefixStart <= TargetOffset
        firstStart == IF prefixFirst THEN PrefixStart ELSE TargetOffset
        firstEnd == IF prefixFirst THEN PrefixEnd ELSE TargetSlotEnd
        secondStart == IF prefixFirst THEN TargetOffset ELSE PrefixStart
        lastEnd == IF PrefixEnd >= TargetSlotEnd THEN PrefixEnd
                                                 ELSE TargetSlotEnd
    IN  /\ Kept(0, firstStart)
        /\ Kept(firstEnd, secondStart)
        /\ Kept(lastEnd, Len(input))

\* the stale bytes of the window, from the end of the written content to
\* flash_addr + size
StaleKept == Kept(PrefixEnd, TargetFlashAddr + TargetSize)

\* the other slots of the table and its sentinel
OtherSlotsKept ==
    \A j \in 0..TableLen(input) :
        j # Args.section_index => SlotAt(output.bytes, j) = SlotAt(input, j)

(***************************************************************************)
(* C11 as stated: a successful replacesection keeps the length of the      *)
(* image and changes it only in the written prefix and in the slot of the  *)
(* target entry: the stale bytes of the window, every other slot of the    *)
(* table and the sentinel are what they were.                              *)
(***************************************************************************)
C11_StaleBytesAndOtherSlotsKept ==
    Succeeded =>
        /\ Len(output.bytes) = Len(input)
        /\ KeptOutsidePrefixAndSlot
        /\ StaleKept
        /\ OtherSlotsKept

(***************************************************************************)
(* C11: a successful replacesection keeps the length of the image and      *)
(* every byte that lies neither in the written prefix nor in the slot of   *)
(* the target entry; so the stale bytes of the window are kept but for     *)
(* those in the slot of the target entry, and the other slots and the      *)
(* sentinel but for the bytes of them in the written prefix.               *)
(***************************************************************************)
C11_OnlyPrefixAndSlotChange ==
    Succeeded =>
        /\ Len(output.bytes) = Len(input)
        /\ KeptOutsidePrefixAndSlot
        /\ WindowOffTable => StaleKept /\ OtherSlotsKept

\* content shorter than the window of one of two entries: the prefix and
\* the slot changed, the stale bytes are no zero bytes
C11_Witness ==
    /\ Succeeded
    /\ WrittenLen < TargetSize
    /\ TableLen(input) = 2
    /\ WindowOffTable
    /\ NewSlot # OldSlot
    /\ Slice(output.bytes, PrefixStart, WrittenLen) = WrittenContent
    /\ Slice(input, PrefixStart, WrittenLen) # WrittenContent
    /\ Slice(input, PrefixEnd, TargetSize - WrittenLen)
           # Repeat(0, TargetSize - WrittenLen)

=============================================================================
